---- MODULE Spec2Model ----
(***************************************************************************)
(* QSchematic wire system: wires, nets, the wire manager's net merge and   *)
(* split, junction generation and the connector attachment table.          *)
(*                                                                         *)
(* Sources: src/qschematic/wire_system/wiresystem.cpp (wire_manager),      *)
(*          src/qschematic/items/wire.cpp (Wire).                          *)
(* wire_system::net, wire_system::wire and Line are declared in headers    *)
(* that are not among the sources; what the model needs of them is taken   *)
(* from spec.md and marked so.                                             *)
(***************************************************************************)
EXTENDS Integers, Sequences, FiniteSets, TLC

\* ------------------------------------------------------------------ bounds
NumWires == 3
MaxNets == 3
MaxPoints == 4
MaxCoord == 2

\* Nested calls of movePointBy are followed to this depth; a chain that repeats
\* a call is found within it.
StackDepth == 2

Wires == 1..NumWires
NetIds == 1..(MaxNets + NumWires + 1)
Connectors == {1, 2}
NoNet == 0

VARIABLES
    points,       \* wire -> sequence of points [x, y, j]   (Wire::_points)
    connected,    \* wire -> wires it stores a link to      (Wire::_connectedWires)
    wireNet,      \* wire -> its net, or NoNet              (wire::net())
    nets,         \* the manager's list of nets             (wire_manager::_nets)
    netWires,     \* net -> its wires                       (net::wires())
    netName,      \* net -> its name, "" for none           (net::name())
    connections,  \* connector -> <<wire, index>> or <<>>   (wire_manager::_connections)
    handlers,     \* wire -> how many pointRemoved handlers the manager has on it
    faulted,      \* the program was stopped by a failed assertion, a bad access
                  \* or a stack that ran out
    preserveStraightAngles   \* Settings::preserveStraightAngles

vars == <<points, connected, wireNet, nets, netWires, netName, connections, handlers,
          faulted, preserveStraightAngles>>

\* The manager and everything it reaches, as one value.
State == [points |-> points, connected |-> connected, wireNet |-> wireNet,
          nets |-> nets, netWires |-> netWires, netName |-> netName,
          connections |-> connections,
          handlers |-> handlers, faulted |-> faulted,
          preserveStraightAngles |-> preserveStraightAngles, beyond |-> FALSE]

Range(q) == {q[i] : i \in 1..Len(q)}

\* ------------------------------------------------------------- wire, net

\* Wire::connectWire: false when the link is already stored, else stores it.
Wire_connectWire_ok(s, wire, other) == other \notin s.connected[wire]

Wire_connectWire(s, wire, other) ==
    [s EXCEPT !.connected[wire] = @ \cup {other}]

\* Wire::disconnectWire that takes the wire out of the other's list as well.
Wire_disconnectWire_both(s, wire, other) ==
    [s EXCEPT !.connected[wire] = @ \ {other},
              !.connected[other] = @ \ {wire}]

\* Wire::disconnectWire: removeAll on this wire's list only.
Wire_disconnectWire(s, wire, other) ==
    [s EXCEPT !.connected[wire] = @ \ {other}]

\* net::addWire: the net takes the wire and the wire's back-reference is set.
Net_addWire(s, n, w) ==
    [s EXCEPT !.netWires[n] = @ \cup {w}, !.wireNet[w] = n]

\* net::removeWire: the net drops the wire; a back-reference to this net is cleared.
Net_removeWire(s, n, w) ==
    [s EXCEPT !.netWires[n] = @ \ {w},
              !.wireNet[w] = IF @ = n THEN NoNet ELSE @]

\* std::make_shared<WireNet>(): an identity no live net has; a new net has
\* no name.
NetsInUse(s) ==
    Range(s.nets) \cup {s.wireNet[w] : w \in Wires} \cup {n \in NetIds : s.netName[n] # ""}
NewNetId(s) == CHOOSE n \in NetIds : n \notin NetsInUse(s) /\ \A m \in NetIds : m < n => m \in NetsInUse(s)

\* wire_manager::addWireNet
addWireNet(s, n) == [s EXCEPT !.nets = Append(@, n)]

\* wire_manager::removeWireNet: _nets.removeAll(net)
removeWireNet(s, n) == [s EXCEPT !.nets = SelectSeq(@, LAMBDA m : m # n)]

\* wire_manager::wires(): the wires of every net in the list.
wires(s) == UNION {s.netWires[n] : n \in Range(s.nets)}

\* ------------------------------------------------------ wire_manager: nets

RECURSIVE MoveAll(_, _, _, _)
MoveAll(s, todo, from, to) ==
    IF todo = {} THEN s
    ELSE LET w == CHOOSE x \in todo : TRUE
         IN MoveAll(Net_removeWire(Net_addWire(s, to, w), from, w), todo \ {w}, from, to)

\* mergeNets that adds the wires to net and leaves them in otherNet.
mergeNets_addOnly(s, net, otherNet) ==
    IF net = otherNet THEN s
    ELSE [s EXCEPT !.netWires[net] = @ \cup s.netWires[otherNet],
                   !.wireNet = [w \in Wires |->
                                  IF w \in s.netWires[otherNet] THEN net ELSE @[w]]]

\* wire_manager::mergeNets: the result state; mergeNets_ok is its return value.
mergeNets_ok(s, net, otherNet) == net # otherNet

mergeNets(s, net, otherNet) ==
    IF net = otherNet THEN s
    ELSE MoveAll(s, s.netWires[otherNet], otherNet, net)

\* connectWire that leaves the drained net in the manager's list.
connectWire_keepNet(s, wire, rawWire) ==
    IF ~Wire_connectWire_ok(s, wire, rawWire) THEN s
    ELSE LET s1 == Wire_connectWire(s, wire, rawWire)
         IN mergeNets(s1, s1.wireNet[wire], s1.wireNet[rawWire])

\* wire_manager::connectWire
connectWire(s, wire, rawWire) ==
    IF ~Wire_connectWire_ok(s, wire, rawWire) THEN s
    ELSE LET s1 == Wire_connectWire(s, wire, rawWire)
             net == s1.wireNet[wire]
             otherNet == s1.wireNet[rawWire]
         IN IF mergeNets_ok(s1, net, otherNet)
            THEN removeWireNet(mergeNets(s1, net, otherNet), otherNet)
            ELSE s1

\* wire_manager::wiresConnectedTo: the closure of {wire} under stored links in
\* either direction, searched among the wires of wire's net.
RECURSIVE ConnectedClosure(_, _, _)
ConnectedClosure(s, candidates, connectedWires) ==
    LET newList == {otherWire \in candidates \ connectedWires :
                      \E wire2 \in connectedWires :
                         \/ otherWire \in s.connected[wire2]
                         \/ wire2 \in s.connected[otherWire]}
    IN IF newList = {} THEN connectedWires
       ELSE ConnectedClosure(s, candidates, connectedWires \cup newList)

wiresConnectedTo(s, wire) ==
    ConnectedClosure(s, s.netWires[s.wireNet[wire]], {wire})

\* disconnectWire without the net split.
disconnectWire_noSplit(s, wire, otherWire) ==
    Wire_disconnectWire(s, wire, otherWire)

\* disconnectWire whose split moves otherWire alone.
disconnectWire_moveOne(s, wire, otherWire) ==
    LET s1 == Wire_disconnectWire(s, wire, otherWire)
        net == s1.wireNet[otherWire]
        oldWires == wiresConnectedTo(s1, wire)
    IN IF Cardinality(s1.netWires[net]) # Cardinality(oldWires)
       THEN LET newNet == NewNetId(s1)
                s2 == addWireNet(s1, newNet)
            IN MoveAll(s2, {otherWire} \ oldWires, net, newNet)
       ELSE s1

\* disconnectWire that takes the junction flags off otherWire as well.
disconnectWire_unflag(s, wire, otherWire) ==
    LET s0 == [s EXCEPT !.points[otherWire] =
                   [i \in 1..Len(@) |-> [x |-> @[i].x, y |-> @[i].y, j |-> FALSE]]]
        s1 == Wire_disconnectWire(s0, wire, otherWire)
        net == s1.wireNet[otherWire]
        oldWires == wiresConnectedTo(s1, wire)
    IN IF Cardinality(s1.netWires[net]) # Cardinality(oldWires)
       THEN LET newNet == NewNetId(s1)
                s2 == addWireNet(s1, newNet)
            IN MoveAll(s2, s2.netWires[net] \ oldWires, net, newNet)
       ELSE s1

\* wire_manager::disconnectWire
disconnectWire(s, wire, otherWire) ==
    LET s1 == Wire_disconnectWire(s, wire, otherWire)
        net == s1.wireNet[otherWire]
        oldWires == wiresConnectedTo(s1, wire)
    IN IF Cardinality(s1.netWires[net]) # Cardinality(oldWires)
       THEN LET newNet == NewNetId(s1)
                s2 == addWireNet(s1, newNet)
            IN MoveAll(s2, s2.netWires[net] \ oldWires, net, newNet)
       ELSE s1

\* wire_manager::addWire
addWire(s, wire) ==
    LET newNet == NewNetId(s)
    IN addWireNet(Net_addWire(s, newNet, wire), newNet)

\* ---------------------------------------------------------------- geometry

Pt(x, y) == [x |-> x, y |-> y, j |-> FALSE]
SamePos(p, q) == p.x = q.x /\ p.y = q.y

\* Line::containsPoint with tolerance 0 on grid coordinates: q lies on the
\* closed segment from a to b.
Line_containsPoint(a, b, q) ==
    /\ (b.x - a.x) * (q.y - a.y) = (b.y - a.y) * (q.x - a.x)
    /\ (IF a.x <= b.x THEN a.x <= q.x /\ q.x <= b.x ELSE b.x <= q.x /\ q.x <= a.x)
    /\ (IF a.y <= b.y THEN a.y <= q.y /\ q.y <= b.y ELSE b.y <= q.y /\ q.y <= a.y)

\* Wire::pointIsOnWire: q lies on one of the wire's line segments.
pointIsOnWire(s, wire, q) ==
    \E i \in 1..(Len(s.points[wire]) - 1) :
        Line_containsPoint(s.points[wire][i], s.points[wire][i + 1], q)

\* Wire::setPointIsJunction (index counted from 0); out of range is ignored.
setPointIsJunction(s, wire, index, isJunction) ==
    IF index < 0 \/ index > Len(s.points[wire]) - 1 THEN s
    ELSE [s EXCEPT !.points[wire][index + 1].j = isJunction]

\* wire::junctions(): the indices (from 0) of the points flagged as junctions.
junctions(s, wire) == {i \in 0..(Len(s.points[wire]) - 1) : s.points[wire][i + 1].j}

\* -------------------------------------- wire_manager::generateJunctions

RECURSIVE SortedSeq(_)
SortedSeq(S) ==
    IF S = {} THEN <<>>
    ELSE LET m == CHOOSE x \in S : \A y \in S : x <= y
         IN <<m>> \o SortedSeq(S \ {m})

\* wire_manager::wires() as the list the loops walk: net after net.
RECURSIVE wiresFrom(_, _)
wiresFrom(s, i) ==
    IF i > Len(s.nets) THEN <<>>
    ELSE SortedSeq(s.netWires[s.nets[i]]) \o wiresFrom(s, i + 1)
wiresList(s) == wiresFrom(s, 1)

\* wire_manager::wireWithExtremityAt: the first wire of wires() with a point
\* that passes the test, or 0 for no wire. The loop variable of the inner loop
\* has the name of the parameter, so that the test "point.toPoint() == point"
\* compares the point of the wire, which is on the grid, with itself.
wireWithExtremityAt(s, point) ==
    LET ws == wiresList(s)
        found == {i \in 1..Len(ws) :
                     \E k \in 1..Len(s.points[ws[i]]) :
                         SamePos(s.points[ws[i]][k], s.points[ws[i]][k])}
    IN IF found = {} THEN 0
       ELSE ws[CHOOSE i \in found : \A m \in found : i <= m]

\* The loop body with only its first test.
generateJunctions_firstOnly(s, wire, otherWire) ==
    IF wire = otherWire THEN s
    ELSE IF pointIsOnWire(s, wire, s.points[otherWire][1])
         THEN setPointIsJunction(connectWire(s, wire, otherWire), otherWire, 0, TRUE)
         ELSE s

\* The body of the inner loop of generateJunctions for one ordered pair.
generateJunctions_pair(s, wire, otherWire) ==
    IF wire = otherWire THEN s
    ELSE LET n == Len(s.points[otherWire])
             s1 == IF pointIsOnWire(s, wire, s.points[otherWire][1])
                   THEN setPointIsJunction(connectWire(s, wire, otherWire), otherWire, 0, TRUE)
                   ELSE s
         IN IF pointIsOnWire(s1, wire, s1.points[otherWire][n])
            THEN setPointIsJunction(connectWire(s1, wire, otherWire), otherWire, n - 1, TRUE)
            ELSE s1

RECURSIVE generateJunctions_inner(_, _, _, _)
generateJunctions_inner(s, wire, others, k) ==
    IF k > Len(others) THEN s
    ELSE generateJunctions_inner(generateJunctions_pair(s, wire, others[k]), wire, others, k + 1)

\* generateJunctions that returns after the first wire for which it has made
\* a junction.
RECURSIVE generateJunctions_oneWire(_, _, _)
generateJunctions_oneWire(s, ws, i) ==
    IF i > Len(ws) THEN s
    ELSE LET r == generateJunctions_inner(s, ws[i], wiresList(s), 1)
         IN IF r # s THEN r ELSE generateJunctions_oneWire(s, ws, i + 1)

RECURSIVE generateJunctions_outer(_, _, _)
generateJunctions_outer(s, ws, i) ==
    IF i > Len(ws) THEN s
    ELSE generateJunctions_outer(generateJunctions_inner(s, ws[i], wiresList(s), 1), ws, i + 1)

generateJunctions(s) == generateJunctions_outer(s, wiresList(s), 1)

\* --------------------------------------------- wire_manager::removeWire

\* The junction loop of removeWire: every flagged point of otherWire that lies
\* on the removed wire loses its flag.
ClearJunctionsOn(s, otherWire, wire) ==
    [s EXCEPT !.points[otherWire] =
        [i \in 1..Len(@) |->
            IF @[i].j /\ pointIsOnWire(s, wire, @[i]) THEN [@[i] EXCEPT !.j = FALSE] ELSE @[i]]]

\* The first loop: the wires connected to the removed wire, in turn.
RECURSIVE removeWire_disconnect(_, _, _)
removeWire_disconnect(s, todo, wire) ==
    IF todo = {} THEN s
    ELSE LET otherWire == CHOOSE x \in todo : \A y \in todo : x <= y
         IN removeWire_disconnect(
                ClearJunctionsOn(disconnectWire(s, otherWire, wire), otherWire, wire),
                todo \ {otherWire}, wire)

\* The second and third loop: the wire leaves every net that has it, and every
\* net of the list that is then empty is removed from the list.
RECURSIVE removeWire_nets(_, _, _)
removeWire_nets(s, i, wire) ==
    IF i > Len(s.nets) THEN s
    ELSE LET net == s.nets[i]
             s1 == IF wire \in s.netWires[net] THEN Net_removeWire(s, net, wire) ELSE s
         IN removeWire_nets(s1, i + 1, wire)

removeWire(s, wire) ==
    LET s1 == removeWire_disconnect(s, wiresConnectedTo(s, wire) \ {wire}, wire)
        s2 == removeWire_nets(s1, 1, wire)
    IN [s2 EXCEPT !.nets = SelectSeq(@, LAMBDA n : s2.netWires[n] # {})]

\* ------------------------------------------ wire_manager: attachments

points_count(s, wire) == Len(s.points[wire])

\* wire_manager::connectorsAttachedToWire
connectorsAttachedToWire(s, wire) ==
    {c \in Connectors : s.connections[c] # <<>> /\ s.connections[c][1] = wire}

\* attachWireToConnector that registers a handler with every connector.
attachWireToConnector_always(s, wire, index, connector) ==
    IF index < -1 \/ points_count(s, wire) < index THEN s
    ELSE IF s.connections[connector] # <<>> THEN s
    ELSE [s EXCEPT !.handlers[wire] = @ + 1,
                   !.connections[connector] = <<wire, index>>]

\* wire_manager::attachWireToConnector(wire, index, connector). The handler for
\* the wire's pointRemoved signal is registered with the wire's first connector.
attachWireToConnector(s, wire, index, connector) ==
    IF index < -1 \/ points_count(s, wire) < index THEN s
    ELSE IF s.connections[connector] # <<>> THEN s
    ELSE [s EXCEPT !.handlers[wire] =
                       IF connectorsAttachedToWire(s, wire) = {} THEN @ + 1 ELSE @,
                   !.connections[connector] = <<wire, index>>]

\* wire_manager::detachWire: with the wire's last connector every handler the
\* manager has on the wire goes.
detachWire(s, connector) ==
    IF s.connections[connector] = <<>> THEN s
    ELSE LET wire == s.connections[connector][1]
             s1 == [s EXCEPT !.connections[connector] = <<>>]
         IN IF connectorsAttachedToWire(s1, wire) = {}
            THEN [s1 EXCEPT !.handlers[wire] = 0]
            ELSE s1

\* wire_manager::detachWireFromAll: every attachment to the wire goes, and
\* with the first of them every handler the manager has on the wire.
detachWireFromAll(s, wire) ==
    IF connectorsAttachedToWire(s, wire) = {} THEN s
    ELSE [s EXCEPT !.handlers[wire] = 0,
                   !.connections = [c \in Connectors |->
                       IF @[c] # <<>> /\ @[c][1] = wire THEN <<>> ELSE @[c]]]

\* point_inserted that shifts only the indices behind the inserted point.
point_inserted_behind(s, wire, index) ==
    [s EXCEPT !.connections = [c \in Connectors |->
        IF @[c] = <<>> \/ @[c][1] # wire THEN @[c]
        ELSE IF @[c][2] = 0 THEN @[c]
        ELSE IF @[c][2] > index \/ @[c][2] = points_count(s, wire) - 2
             THEN <<wire, @[c][2] + 1>>
             ELSE @[c]]]

\* wire_manager::point_inserted; the wire has the new point already.
point_inserted(s, wire, index) ==
    [s EXCEPT !.connections = [c \in Connectors |->
        IF @[c] = <<>> \/ @[c][1] # wire THEN @[c]
        ELSE IF @[c][2] = 0 THEN @[c]
        ELSE IF @[c][2] >= index \/ @[c][2] = points_count(s, wire) - 2
             THEN <<wire, @[c][2] + 1>>
             ELSE @[c]]]

\* wire_manager::pointRemoved
pointRemoved(s, wire, index) ==
    [s EXCEPT !.connections = [c \in Connectors |->
        IF @[c] = <<>> \/ @[c][1] # wire THEN @[c]
        ELSE IF @[c][2] >= index THEN <<wire, @[c][2] - 1>>
        ELSE @[c]]]

\* emit pointInserted(index): the wire notifies the manager.
emit_pointInserted(s, wire, index) == point_inserted(s, wire, index)

\* emit pointRemoved(index): every handler registered on the wire runs.
RECURSIVE emit_pointRemoved_n(_, _, _, _)
emit_pointRemoved_n(s, wire, index, n) ==
    IF n = 0 THEN s
    ELSE emit_pointRemoved_n(pointRemoved(s, wire, index), wire, index, n - 1)
emit_pointRemoved(s, wire, index) == emit_pointRemoved_n(s, wire, index, s.handlers[wire])

\* ------------------------------------------------------ Wire: point edits

\* QVector::insert / QVector::remove at an index counted from 0.
InsertAt(q, k, e) == SubSeq(q, 1, k) \o <<e>> \o SubSeq(q, k + 1, Len(q))
RemoveAt(q, k) == SubSeq(q, 1, k) \o SubSeq(q, k + 2, Len(q))

\* Wire::prependPoint
prependPoint(s, wire, point) ==
    LET s1 == [s EXCEPT !.points[wire] = <<Pt(point.x, point.y)>> \o @]
        s2 == IF points_count(s1, wire) >= 2
              THEN setPointIsJunction(
                       setPointIsJunction(s1, wire, 0, s1.points[wire][2].j), wire, 1, FALSE)
              ELSE s1
    IN emit_pointInserted(s2, wire, 0)

\* Wire::appendPoint
appendPoint(s, wire, point) ==
    LET s1 == [s EXCEPT !.points[wire] = Append(@, Pt(point.x, point.y))]
        n == points_count(s1, wire)
        s2 == IF n > 2
              THEN setPointIsJunction(
                       setPointIsJunction(s1, wire, n - 1, s1.points[wire][n - 1].j),
                       wire, n - 2, FALSE)
              ELSE s1
    IN emit_pointInserted(s2, wire, n - 1)

\* Wire::insertPoint on a wire that no other wire is joined to, so that no
\* junction has to follow the segment; the point is on the grid already. With
\* index 0 the segment read before the insertion does not exist, and the
\* insertion is what follows if the program goes on.
insertPoint(s, wire, index, point) ==
    IF index < 0 \/ index >= points_count(s, wire) THEN s
    ELSE emit_pointInserted(
             [s EXCEPT !.points[wire] = InsertAt(@, index, Pt(point.x, point.y))],
             wire, index)

\* removePoint that tells nobody.
removePoint_silent(s, wire, index) ==
    [s EXCEPT !.points[wire] = RemoveAt(@, index)]

\* Wire::removePoint on a wire that no other wire is joined to. The index is
\* not looked at: with an index that is not one of a point, QVector::remove
\* reads and writes outside the vector, and where the program goes on the
\* vector is as it was (here) or is shorter by its last element
\* (removePoint_outside); the signal is emitted either way.
removePoint(s, wire, index) ==
    emit_pointRemoved(
        [s EXCEPT !.points[wire] =
            IF 0 <= index /\ index < Len(@) THEN RemoveAt(@, index) ELSE @],
        wire, index)

removePoint_outside(s, wire, index) ==
    emit_pointRemoved(
        [s EXCEPT !.points[wire] = IF Len(@) >= 1 THEN SubSeq(@, 1, Len(@) - 1) ELSE @],
        wire, index)

\* Wire::removeDuplicatePoints
RECURSIVE removeDuplicatePoints_from(_, _, _)
removeDuplicatePoints_from(s, wire, i) ==
    IF ~(i < points_count(s, wire) - 1 /\ points_count(s, wire) > 2) THEN s
    ELSE LET p1 == s.points[wire][i + 1]
             p2 == s.points[wire][i + 2]
         IN IF SamePos(p1, p2)
            THEN LET s1 == IF ~p1.j THEN setPointIsJunction(s, wire, i, p2.j) ELSE s
                     s2 == emit_pointRemoved(s1, wire, i + 1)
                 IN removeDuplicatePoints_from(
                        [s2 EXCEPT !.points[wire] = RemoveAt(@, i + 1)], wire, i)
            ELSE removeDuplicatePoints_from(s, wire, i + 1)

\* removeDuplicatePoints that does not stop at two points.
RECURSIVE removeDuplicatePoints_noFloor_from(_, _, _)
removeDuplicatePoints_noFloor_from(s, wire, i) ==
    IF ~(i < points_count(s, wire) - 1) THEN s
    ELSE LET p1 == s.points[wire][i + 1]
             p2 == s.points[wire][i + 2]
         IN IF SamePos(p1, p2)
            THEN LET s1 == IF ~p1.j THEN setPointIsJunction(s, wire, i, p2.j) ELSE s
                     s2 == emit_pointRemoved(s1, wire, i + 1)
                 IN removeDuplicatePoints_noFloor_from(
                        [s2 EXCEPT !.points[wire] = RemoveAt(@, i + 1)], wire, i)
            ELSE removeDuplicatePoints_noFloor_from(s, wire, i + 1)
removeDuplicatePoints_noFloor(s, wire) == removeDuplicatePoints_noFloor_from(s, wire, 0)

removeDuplicatePoints(s, wire) == removeDuplicatePoints_from(s, wire, 0)

\* Utils::pointIsOnLine: q is on the line through a and b.
Utils_pointIsOnLine(a, b, q) ==
    (b.x - a.x) * (q.y - a.y) = (b.y - a.y) * (q.x - a.x)

\* QVector::indexOf: the first index (from 0) of a point equal to p.
indexOf(q, p) ==
    IF \E k \in 1..Len(q) : SamePos(q[k], p)
    THEN (CHOOSE k \in 1..Len(q) : SamePos(q[k], p) /\ \A m \in 1..(k - 1) : ~SamePos(q[m], p)) - 1
    ELSE -1

\* Wire::removeObsoletePoints; it is the position of the iterator.
RECURSIVE removeObsoletePoints_from(_, _, _)
removeObsoletePoints_from(s, wire, it) ==
    IF it >= points_count(s, wire) THEN s
    ELSE LET p1 == s.points[wire][it - 1]
             p2 == s.points[wire][it]
             p3 == s.points[wire][it + 1]
         IN IF Utils_pointIsOnLine(p1, p2, p3)
            THEN LET s1 == emit_pointRemoved(s, wire, indexOf(s.points[wire], p2))
                 IN removeObsoletePoints_from(
                        [s1 EXCEPT !.points[wire] = RemoveAt(@, it - 1)], wire, it)
            ELSE removeObsoletePoints_from(s, wire, it + 1)
removeObsoletePoints(s, wire) ==
    IF points_count(s, wire) < 3 THEN s ELSE removeObsoletePoints_from(s, wire, 2)

\* Wire::simplify
simplify(s, wire) == removeObsoletePoints(removeDuplicatePoints(s, wire), wire)

\* ------------------------------------------------------ Wire: point moves

\* Line::isNull, Line::isHorizontal, Line::isVertical on grid coordinates.
Line_isNull(a, b) == a.x = b.x /\ a.y = b.y
Line_isHorizontal(a, b) == a.y = b.y
Line_isVertical(a, b) == a.x = b.x

\* Line(a, b).lenght() <= 2
Line_lenght_le2(a, b) ==
    (b.x - a.x) * (b.x - a.x) + (b.y - a.y) * (b.y - a.y) <= 4

Vec(x, y) == [x |-> x, y |-> y]
Moved(p, d) == [x |-> p.x + d.x, y |-> p.y + d.y]
Abs(n) == IF n < 0 THEN -n ELSE n
MinOf(a, b) == IF a < b THEN a ELSE b

\* The wires a wire stores a link to, in the order of the loops over
\* _connectedWires, and the junction indices of a wire in ascending order.
connectedWiresList(s, wire) == SortedSeq(s.connected[wire])
junctionsList(s, wire) == SortedSeq(junctions(s, wire))

\* A call that is entered again with the arguments and the state it was
\* entered with before it returned never returns: the stack runs out.
Frame(s, wire, index, moveBy) == <<wire, index, moveBy, s.points, s.connections>>
StackOverflow(s) == [s EXCEPT !.faulted = TRUE]

\* A call chain of more than StackDepth calls of movePointBy that does not
\* come back to a frame is not followed further, and neither is a move in
\* which a junction has to be put on a new segment.
TooDeep(s) == [s EXCEPT !.beyond = TRUE]
Stopped(s) == s.faulted \/ s.beyond

\* The element of a set of one element: Only({e(s) : s \in {s0}}) is e(s0),
\* with s0 computed once.
Only(S) == CHOOSE e \in S : TRUE

\* move_junctions_to_new_segment(oldSegment, newSegment) where no junction of
\* a connected wire has to follow: every junction on the old segment is on the
\* new one. Where one has to follow, the move is outside what is modelled.
move_junctions_to_new_segment(s, wire, oa, ob, na, nb) ==
    IF \E other \in s.connected[wire] : \E jIndex \in junctions(s, other) :
           /\ Line_containsPoint(oa, ob, s.points[other][jIndex + 1])
           /\ ~Line_containsPoint(na, nb, s.points[other][jIndex + 1])
    THEN [s EXCEPT !.beyond = TRUE]
    ELSE s

RECURSIVE movePointBy(_, _, _, _, _)
RECURSIVE movePointTo(_, _, _, _, _)
RECURSIVE moveLineSegmentBy(_, _, _, _, _)
RECURSIVE moveJunctions_inner(_, _, _, _, _, _, _)
RECURSIVE moveJunctions(_, _, _, _, _)

\* The body of the loops "for wire in _connectedWires, for jIndex in
\* wire->junctions()" of movePointBy (how.kind = "line": the junction is on
\* the line how.a - how.b and on neither end), of movePointTo ("point": the
\* junction is on the point how.index) and of moveLineSegmentBy ("segment":
\* the junction is on the segment how.index and on neither end).
moveJunctions_inner(s0, self, other, todo, k, how, callers) ==
    Only({
        IF k > Len(todo) \/ Stopped(s) THEN s
        ELSE LET jIndex == todo[k]
                 point == s.points[other][jIndex + 1]
                 a == IF how.kind = "line" THEN how.a ELSE s.points[self][how.index + 1]
                 b == IF how.kind = "line" THEN how.b
                      ELSE IF how.kind = "segment" THEN s.points[self][how.index + 2]
                      ELSE a
                 onLine == /\ Line_containsPoint(a, b, point)
                           /\ ~SamePos(a, point) /\ ~SamePos(b, point)
             IN moveJunctions_inner(
                    IF how.kind = "point"
                    THEN IF SamePos(a, point)
                         THEN movePointBy(s, other, jIndex,
                                  Vec(how.moveTo.x - a.x, how.moveTo.y - a.y), callers)
                         ELSE s
                    ELSE IF how.kind = "segment"
                    THEN IF onLine THEN movePointBy(s, other, jIndex, how.moveBy, callers)
                         ELSE s
                    ELSE IF onLine
                    THEN IF Line_isHorizontal(a, b)
                         THEN movePointBy(s, other, jIndex, Vec(0, how.moveBy.y), callers)
                         ELSE movePointBy(s, other, jIndex, Vec(how.moveBy.x, 0), callers)
                    ELSE s,
                    self, other, todo, k + 1, how, callers)
        : s \in {s0}})

moveJunctions(s0, self, todo, how, callers) ==
    Only({
        IF todo = <<>> \/ Stopped(s) THEN s
        ELSE moveJunctions(
                 moveJunctions_inner(s, self, Head(todo), junctionsList(s, Head(todo)), 1,
                                     how, callers),
                 self, Tail(todo), how, callers)
        : s \in {s0}})

\* Wire::movePointTo from "Move junctions on the next segment" on.
movePointTo_segments(s0, wire, index, moveTo) ==
    Only({
        IF Stopped(s) THEN s
        ELSE LET s2 == IF index < points_count(s, wire) - 1
                       THEN move_junctions_to_new_segment(s, wire,
                                s.points[wire][index + 1], s.points[wire][index + 2],
                                moveTo, s.points[wire][index + 2])
                       ELSE s
                 s3 == IF index > 0
                       THEN move_junctions_to_new_segment(s2, wire,
                                s.points[wire][index], s.points[wire][index + 1],
                                s.points[wire][index], moveTo)
                       ELSE s2
             IN [s3 EXCEPT !.points[wire][index + 1] =
                    [x |-> moveTo.x, y |-> moveTo.y, j |-> @.j]]
        : s \in {s0}})

\* Wire::movePointTo
movePointTo(s0, wire, index, moveTo, callers) ==
    Only({
        IF Stopped(s) THEN s
        ELSE IF index < 0 \/ index > points_count(s, wire) - 1 THEN s
        ELSE IF SamePos(s.points[wire][index + 1], moveTo) THEN s
        ELSE movePointTo_segments(
                 moveJunctions(s, wire, connectedWiresList(s, wire),
                     [kind |-> "point", index |-> index, moveTo |-> moveTo], callers),
                 wire, index, moveTo)
        : s \in {s0}})

\* movePointTo(index, the point's position + moveBy), as moveLineSegmentBy has
\* it done by a CommandWirepointMove on the undo stack (whose redo moves the
\* point to the new position) and as movePointBy does it for a neighbour.
movePointTo_by(s0, wire, index, moveBy, callers) ==
    Only({
        IF Stopped(s) THEN s
        ELSE movePointTo(s, wire, index, Moved(s.points[wire][index + 1], moveBy), callers)
        : s \in {s0}})

\* Wire::moveLineSegmentBy from "If this is the first or last segment" on.
moveLineSegmentBy_grow(s0, wire, index, moveBy, callers) ==
    Only({
        IF Stopped(s) THEN s
        ELSE LET n == points_count(s, wire)
                 pointIndex == IF index = 0 THEN 0 ELSE n - 1
                 point == s.points[wire][pointIndex + 1]
                 isConnected ==
                     \/ \E connector \in Connectors :
                            s.connections[connector] = <<wire, pointIndex>>
                     \/ point.j
                 grow == (index = 0 \/ index = n - 2) /\ isConnected
                 index1 == IF grow /\ index = 0 THEN index + 1 ELSE index
             IN movePointTo_by(
                    movePointTo_by(
                        IF ~grow THEN s
                        ELSE IF index = 0 THEN prependPoint(s, wire, s.points[wire][1])
                        ELSE appendPoint(s, wire, s.points[wire][n]),
                        wire, index1, moveBy, callers),
                    wire, index1 + 1, moveBy, callers)
        : s \in {s0}})

\* Wire::moveLineSegmentBy
moveLineSegmentBy(s0, wire, index, moveBy, callers) ==
    Only({
        IF Stopped(s) THEN s
        ELSE IF moveBy.x = 0 /\ moveBy.y = 0 THEN s
        ELSE IF index < 0 \/ index > points_count(s, wire) - 2 THEN s
        ELSE moveLineSegmentBy_grow(
                 moveJunctions(s, wire, connectedWiresList(s, wire),
                     [kind |-> "segment", index |-> index, moveBy |-> moveBy], callers),
                 wire, index, moveBy, callers)
        : s \in {s0}})

\* Wire::movePointBy, "Move junctions before the points are moved" and the
\* move of the neighbour along the axis of the line a - b.
movePointBy_drag(s0, wire, index, a, b, moveBy, callers) ==
    Only({
        IF Stopped(s) THEN s
        ELSE IF ~Line_isNull(a, b) /\ (Line_isHorizontal(a, b) \/ Line_isVertical(a, b))
        THEN movePointTo_by(
                 moveJunctions(s, wire, connectedWiresList(s, wire),
                     [kind |-> "line", a |-> a, b |-> b, moveBy |-> moveBy], callers),
                 wire, index,
                 IF Line_isHorizontal(a, b) THEN Vec(0, moveBy.y) ELSE Vec(moveBy.x, 0),
                 callers)
        ELSE s
        : s \in {s0}})

\* Wire::movePointBy, "Move previous point" (side = -1) and "Move next point"
\* (side = 1).
movePointBy_neighbour(s0, wire, index, side, currPoint, moveBy, callers) ==
    Only({
        IF Stopped(s) \/ ~s.preserveStraightAngles THEN s
        ELSE IF side = -1 /\ ~(index >= 1) THEN s
        ELSE IF side = 1 /\ ~(index < points_count(s, wire) - 1) THEN s
        ELSE LET other == s.points[wire][index + side + 1]
                 a == IF side = -1 THEN other ELSE currPoint
                 b == IF side = -1 THEN currPoint ELSE other
                 collide == /\ points_count(s, wire) > 3
                            /\ side = -1 => index >= 2
                            /\ Line_lenght_le2(Moved(currPoint, moveBy), other)
             IN movePointBy_drag(
                    IF collide
                    THEN moveLineSegmentBy(s, wire,
                             IF side = -1 THEN index - 2 ELSE index + 1, moveBy, callers)
                    ELSE s,
                    wire, index + side, a, b, moveBy, callers)
        : s \in {s0}})

\* Wire::movePointBy from "Move the points" on.
movePointBy_move(s0, wire, index, moveBy, callers) ==
    Only({
        IF Stopped(s) THEN s
        ELSE
        LET currPoint == s.points[wire][index + 1]
        IN movePointTo(
               movePointBy_neighbour(
                   movePointBy_neighbour(s, wire, index, -1, currPoint, moveBy, callers),
                   wire, index, 1, currPoint, moveBy, callers),
               wire, index, Moved(currPoint, moveBy), callers)
        : s \in {s0}})

\* Wire::movePointBy
movePointBy(s0, wire, index, moveBy, callers) ==
    Only({
        IF Stopped(s) THEN s
        ELSE IF index < 0 \/ index > points_count(s, wire) - 1 THEN s
        ELSE IF Frame(s, wire, index, moveBy) \in callers THEN StackOverflow(s)
        ELSE IF Cardinality(callers) >= StackDepth THEN TooDeep(s)
        ELSE LET p1 == s.points[wire][1]
                 p2 == s.points[wire][2]
                 split == /\ points_count(s, wire) = 2 /\ s.preserveStraightAngles
                          /\ ~Line_isNull(p1, p2)
                          /\ \/ Line_isHorizontal(p1, p2) /\ moveBy.y # 0
                             \/ Line_isVertical(p1, p2) /\ moveBy.x # 0
                 p == IF Line_isHorizontal(p1, p2)
                      THEN Vec(MinOf(p1.x, p2.x) + (Abs(p2.x - p1.x) \div 2),
                               IF p2.x < p1.x THEN p2.y ELSE p1.y)
                      ELSE Vec(IF p2.y < p1.y THEN p2.x ELSE p1.x,
                               MinOf(p1.y, p2.y) + (Abs(p2.y - p1.y) \div 2))
             IN movePointBy_move(
                    IF split THEN insertPoint(insertPoint(s, wire, 1, p), wire, 1, p) ELSE s,
                    wire,
                    IF split /\ index = 1 THEN index + 2 ELSE index,
                    moveBy,
                    callers \cup {Frame(s, wire, index, moveBy)})
        : s \in {s0}})

\* The body of the loop "for junctionIndex in wire->junctions()" of
\* Wire::removePoint: a junction on the first segment of the wire is moved to
\* the wire's second point, one on the last segment to its second last point.
\* The position of the junction is read once, before it is moved.
removePoint_junction(s, wire, other, jIndex) ==
    LET point == s.points[other][jIndex + 1]
        s1 == IF Line_containsPoint(s.points[wire][1], s.points[wire][2], point)
              THEN movePointTo(s, other, jIndex, s.points[wire][2], {})
              ELSE s
        n == points_count(s1, wire)
    IN IF Stopped(s1) THEN s1
       ELSE IF Line_containsPoint(s1.points[wire][n - 1], s1.points[wire][n], point)
       THEN movePointTo(s1, other, jIndex, s1.points[wire][n - 1], {})
       ELSE s1

\* The loops "for wire in connected_wires(), for junctionIndex in
\* wire->junctions()" of Wire::removePoint: todo is the list of the junctions
\* of the first of the wires in others, taken when the loop reaches that wire.
RECURSIVE removePoint_wires(_, _, _, _, _)
removePoint_wires(s0, wire, others, todo, k) ==
    Only({
        IF Stopped(s) THEN s
        ELSE IF k <= Len(todo)
        THEN removePoint_wires(removePoint_junction(s, wire, Head(others), todo[k]),
                               wire, others, todo, k + 1)
        ELSE IF Len(others) <= 1 THEN s
        ELSE removePoint_wires(s, wire, Tail(others), junctionsList(s, others[2]), 1)
        : s \in {s0}})

\* Wire::removePoint on a wire of two or more points that other wires may be
\* joined to.
removePoint_joined(s0, wire, index) ==
    Only({
        IF Stopped(s) THEN s
        ELSE removePoint(s, wire, index)
        : s \in {IF index > 0 /\ index < points_count(s0, wire) - 1
                 THEN move_junctions_to_new_segment(
                          move_junctions_to_new_segment(s0, wire,
                              s0.points[wire][index], s0.points[wire][index + 1],
                              s0.points[wire][index], s0.points[wire][index + 2]),
                          wire,
                          s0.points[wire][index + 1], s0.points[wire][index + 2],
                          s0.points[wire][index], s0.points[wire][index + 2])
                 ELSE IF s0.connected[wire] = {} THEN s0
                 ELSE removePoint_wires(s0, wire, connectedWiresList(s0, wire),
                          junctionsList(s0, Head(connectedWiresList(s0, wire))), 1)}})

\* ------------------------------------------- wire_manager::connectorMoved

\* wire_manager::connectorMoved for a connector that is at scenePos, in the
\* scene of its wire, and whose stored index is not -1.
connectorMoved(s0, connector, scenePos) ==
    Only({
        IF s.connections[connector] = <<>> THEN s
        ELSE LET wire == s.connections[connector][1]
                 index == s.connections[connector][2]
             IN IF index < -1 \/ points_count(s, wire) <= index THEN s
                ELSE LET oldPos == s.points[wire][index + 1]
                         moveBy == Vec(scenePos.x - oldPos.x, scenePos.y - oldPos.y)
                     IN IF moveBy = Vec(0, 0) THEN s
                        ELSE movePointBy(s, wire, index, moveBy, {})
        : s \in {s0}})

\* ------------------------------------ wire_manager::wirePointMovedByUser

RECURSIVE wirePointMovedByUser_detach(_, _, _, _, _)
RECURSIVE wirePointMovedByUser_attach(_, _, _, _, _)

\* The detach loop that takes the flag off and disconnects nothing.
wirePointMovedByUser_detach_flagOnly(s0, rawWire, index, ws, k) ==
    setPointIsJunction(s0, rawWire, index, FALSE)

\* The detach loop over wires(): a wire that stores rawWire is disconnected
\* from it unless another junction of rawWire lies on it, and the moved
\* point's flag is taken off either way.
wirePointMovedByUser_detach(s0, rawWire, index, ws, k) ==
    Only({
        IF k > Len(ws) THEN s
        ELSE IF ws[k] = rawWire \/ rawWire \notin s.connected[ws[k]]
        THEN wirePointMovedByUser_detach(s, rawWire, index, ws, k + 1)
        ELSE LET wire == ws[k]
                 shouldDisconnect ==
                     ~\E jIndex \in junctions(s, rawWire) \ {index} :
                         pointIsOnWire(s, wire, s.points[rawWire][jIndex + 1])
             IN wirePointMovedByUser_detach(
                    setPointIsJunction(
                        IF shouldDisconnect THEN disconnectWire(s, wire, rawWire) ELSE s,
                        rawWire, index, FALSE),
                    rawWire, index, ws, k + 1)
        : s \in {s0}})

\* The attach loop over wires(): a wire the moved point lies on, and that
\* rawWire does not store, gets rawWire connected to it and the point flagged.
wirePointMovedByUser_attach(s0, rawWire, index, ws, k) ==
    Only({
        IF k > Len(ws) THEN s
        ELSE IF /\ ws[k] # rawWire
                /\ pointIsOnWire(s, ws[k], s.points[rawWire][index + 1])
                /\ ws[k] \notin s.connected[rawWire]
        THEN wirePointMovedByUser_attach(
                 connectWire(setPointIsJunction(s, rawWire, index, TRUE), ws[k], rawWire),
                 rawWire, index, ws, k + 1)
        ELSE wirePointMovedByUser_attach(s, rawWire, index, ws, k + 1)
        : s \in {s0}})

\* wire_manager::wirePointMovedByUser, for an index the wire has.
wirePointMovedByUser(s0, rawWire, index) ==
    Only({
        IF index = 0 \/ index = Len(s.points[rawWire]) - 1
        THEN Only({
                 wirePointMovedByUser_attach(s1, rawWire, index, wiresList(s1), 1)
                 : s1 \in {IF s.points[rawWire][index + 1].j
                           THEN wirePointMovedByUser_detach(s, rawWire, index, wiresList(s), 1)
                           ELSE s}})
        ELSE s
        : s \in {s0}})

\* ------------------------------------------------------------ actions

Managed(w) == wireNet[w] # NoNet /\ w \in netWires[wireNet[w]]
Room == Len(nets) < MaxNets

\* Net identities are pointers that the program only compares for equality, so
\* a state is kept with its nets renamed to their positions in the manager's
\* list (nets that are only referenced by a wire come after them).
Normalize(s) ==
    LET k == Len(s.nets)
        listed == Range(s.nets)
        stale == {s.wireNet[w] : w \in Wires} \ (listed \cup {NoNet})
        ren == [n \in listed \cup stale |->
                  IF n \in listed THEN CHOOSE i \in 1..k : s.nets[i] = n
                  ELSE k + Cardinality({m \in stale : m <= n})]
        inv == [i \in {ren[n] : n \in DOMAIN ren} |-> CHOOSE n \in DOMAIN ren : ren[n] = i]
    IN [s EXCEPT !.nets = [i \in 1..k |-> i],
                 !.wireNet = [w \in Wires |->
                     IF s.wireNet[w] = NoNet THEN NoNet ELSE ren[s.wireNet[w]]],
                 !.netWires = [n \in NetIds |->
                     IF n \in DOMAIN inv THEN s.netWires[inv[n]] ELSE {}],
                 !.netName = [n \in NetIds |->
                     IF n \in DOMAIN inv THEN s.netName[inv[n]] ELSE ""]]

Become(s0) ==
    \E s \in {Normalize(s0)} :
       /\ ~faulted /\ faulted' = s.faulted
       /\ preserveStraightAngles' = s.preserveStraightAngles
       /\ points' = s.points
       /\ connected' = s.connected
       /\ wireNet' = s.wireNet
       /\ nets' = s.nets
       /\ netWires' = s.netWires
       /\ netName' = s.netName
       /\ connections' = s.connections
       /\ handlers' = s.handlers

\* The operation does not return: the program stops where it is.
Fault ==
    /\ ~faulted /\ faulted' = TRUE
    /\ UNCHANGED <<points, connected, wireNet, nets, netWires, netName, connections,
                   handlers, preserveStraightAngles>>

\* add_wire of a wire that was never handed to the manager. Wires are handed
\* over in the order of their numbers, which are arbitrary.
AddNewWire(w) ==
    /\ wireNet[w] = NoNet /\ w \notin wires(State) /\ connected[w] = {}
    /\ \A v \in Wires : v < w => wireNet[v] # NoNet
    /\ Room
    /\ Become(addWire(State, w))

\* add_wire of any wire: a new one, one the manager already has, or one that
\* was removed before (its connection list is whatever remove_wire left).
AddWire(w) ==
    /\ Room
    /\ Become(addWire(State, w))

\* add_wire of a wire the manager does not have: a new one, or one that was
\* removed before and is put back.
AddAbsentWire(w) ==
    /\ w \notin wires(State)
    /\ Room
    /\ Become(addWire(State, w))

ConnectWire(a, b) ==
    /\ Managed(a) /\ Managed(b)
    /\ Become(connectWire(State, a, b))

DisconnectWire(a, b) ==
    /\ Managed(a) /\ Managed(b)
    /\ Room
    /\ Become(disconnectWire(State, a, b))

RemoveWire(w) ==
    /\ Managed(w)
    /\ Len(nets) + Cardinality(wiresConnectedTo(State, w)) - 1 <= MaxNets
    /\ Become(removeWire(State, w))

GenerateJunctions ==
    /\ Become(generateJunctions(State))

DefaultShape == <<Pt(0, 0), Pt(1, 0)>>

\* Wires as they are drawn before junctions are generated: a horizontal wire,
\* a wire that starts in its middle, and a wire that starts at its end and
\* ends away from it.
JunctionShapes ==
    { <<Pt(0, 0), Pt(2, 0)>>,
      <<Pt(1, 0), Pt(1, 1)>>,
      <<Pt(2, 0), Pt(2, 1), Pt(0, 1)>> }

\* The scene of the junction claims has three wires.
SceneWires == {1, 2, 3}

InitJunctions ==
    /\ points \in {f \in [Wires -> JunctionShapes \cup {DefaultShape}] :
                      \A w \in Wires : f[w] = DefaultShape <=> w \notin SceneWires}
    /\ connected = [w \in Wires |-> {}]
    /\ wireNet = [w \in Wires |-> NoNet]
    /\ nets = <<>>
    /\ netWires = [n \in NetIds |-> {}]
    /\ netName = [n \in NetIds |-> ""]
    /\ connections = [c \in Connectors |-> <<>>]
    /\ handlers = [w \in Wires |-> 0]
    /\ faulted = FALSE
    /\ preserveStraightAngles = TRUE

NextJunctions ==
    \/ \E w \in SceneWires : AddNewWire(w)
    \/ GenerateJunctions
    \/ \E a \in SceneWires : \E b \in SceneWires \ {a} : DisconnectWire(a, b)

\* Wires are registered, junctions are generated in a batch, wires are
\* disconnected again.
SpecJunctions == InitJunctions /\ [][NextJunctions]_vars

InitNet ==
    /\ points = [w \in Wires |-> DefaultShape]
    /\ connected = [w \in Wires |-> {}]
    /\ wireNet = [w \in Wires |-> NoNet]
    /\ nets = <<>>
    /\ netWires = [n \in NetIds |-> {}]
    /\ netName = [n \in NetIds |-> ""]
    /\ connections = [c \in Connectors |-> <<>>]
    /\ handlers = [w \in Wires |-> 0]
    /\ faulted = FALSE
    /\ preserveStraightAngles = TRUE

\* The manager's own callers (generateJunctions, wirePointMovedByUser) never
\* pass the same wire twice, and neither do the actions.
NextConn ==
    \/ \E w \in Wires : AddNewWire(w)
    \/ \E a \in Wires : \E b \in Wires \ {a} : ConnectWire(a, b)
    \/ \E a \in Wires : \E b \in Wires \ {a} : DisconnectWire(a, b)

\* connect_wire / disconnect_wire on wires that were each registered once.
SpecConn == InitNet /\ [][NextConn]_vars

NextNet ==
    \/ \E w \in Wires : AddWire(w)
    \/ \E a \in Wires : \E b \in Wires \ {a} : ConnectWire(a, b)
    \/ \E a \in Wires : \E b \in Wires \ {a} : DisconnectWire(a, b)
    \/ \E w \in Wires : RemoveWire(w)

\* Every net operation of the manager, on any wire.
SpecNet == InitNet /\ [][NextNet]_vars

NextUndo ==
    \/ \E w \in Wires : AddAbsentWire(w)
    \/ \E a \in Wires : \E b \in Wires \ {a} : ConnectWire(a, b)
    \/ \E a \in Wires : \E b \in Wires \ {a} : DisconnectWire(a, b)
    \/ \E w \in Wires : RemoveWire(w)

\* Wires are removed and put back, and no wire is registered while the
\* manager has it.
SpecUndo == InitNet /\ [][NextUndo]_vars

NextRemove ==
    \/ \E w \in SceneWires : AddAbsentWire(w)
    \/ GenerateJunctions
    \/ \E w \in SceneWires : RemoveWire(w)

\* Wires with junctions are removed and put back.
SpecRemove == InitJunctions /\ [][NextRemove]_vars

\* The names a net is given; "" is the empty name.
NetNames == {"", "gnd", "vcc"}

\* net::set_name on the i-th net of the manager's list.
SetName(i, name) ==
    /\ i <= Len(nets)
    /\ Become([State EXCEPT !.netName[nets[i]] = name])

NextName ==
    \/ \E w \in Wires : AddNewWire(w)
    \/ \E i \in 1..MaxNets : \E name \in NetNames : SetName(i, name)
    \/ \E a \in Wires : \E b \in Wires \ {a} : ConnectWire(a, b)

\* Nets are named and merged by connect_wire.
SpecName == InitNet /\ [][NextName]_vars

\* ------------------------------------------------- attachments and edits

\* The grid positions a point is put on.
EditPoints == {Pt(0, 0), Pt(1, 0), Pt(1, 1)}
\* The wire that is edited and that connectors are attached to.
EditWires == {1}

AttachWireToConnector(w, index, c) ==
    /\ Become(attachWireToConnector(State, w, index, c))

DetachWire(c) ==
    /\ Become(detachWire(State, c))

PrependPoint(w, pt) ==
    /\ Len(points[w]) < MaxPoints
    /\ Become(prependPoint(State, w, pt))

AppendPoint(w, pt) ==
    /\ Len(points[w]) < MaxPoints
    /\ Become(appendPoint(State, w, pt))

\* insert(0, ..) on a wire that has points reads the segment in front of the
\* first point, which does not exist: the program stops or goes on.
InsertPoint(w, index, pt) ==
    /\ Len(points[w]) < MaxPoints
    /\ \/ Become(insertPoint(State, w, index, pt))
       \/ index = 0 /\ Len(points[w]) >= 1 /\ Fault

\* remove_point with any index: with one that is not the index of a point the
\* program stops or goes on.
RemovePoint(w, index) ==
    /\ ~faulted
    /\ \/ Become(removePoint(State, w, index))
       \/ /\ ~(0 <= index /\ index < Len(points[w]))
          /\ (Fault \/ Become(removePoint_outside(State, w, index)))

\* remove_point with the index of a point of the wire.
RemoveExistingPoint(w, index) ==
    /\ index < Len(points[w])
    /\ RemovePoint(w, index)

Simplify(w) ==
    /\ Become(simplify(State, w))

NextEdit ==
    \/ \E w \in EditWires : \E index \in (-2)..(MaxPoints + 1) : \E c \in Connectors :
          AttachWireToConnector(w, index, c)
    \/ \E c \in Connectors : DetachWire(c)
    \/ \E w \in EditWires : \E pt \in EditPoints : PrependPoint(w, pt)
    \/ \E w \in EditWires : \E pt \in EditPoints : AppendPoint(w, pt)
    \/ \E w \in EditWires : \E index \in 1..MaxPoints : \E pt \in EditPoints :
          InsertPoint(w, index, pt)
    \/ \E w \in EditWires : \E index \in 0..(MaxPoints - 1) : RemoveExistingPoint(w, index)
    \/ \E w \in EditWires : Simplify(w)

\* Connectors are attached and detached while a wire is edited; insert gets an
\* index from 1 on and remove_point the index of a point.
SpecEdit == InitNet /\ [][NextEdit]_vars

NextInsertAny ==
    \/ \E w \in EditWires : \E index \in 0..1 : \E c \in Connectors :
          AttachWireToConnector(w, index, c)
    \/ \E w \in EditWires : \E index \in 0..(MaxPoints - 1) : RemoveExistingPoint(w, index)
    \/ \E w \in EditWires : \E index \in (-1)..MaxPoints : \E pt \in EditPoints :
          InsertPoint(w, index, pt)

\* insert with any index, on a wire that connectors are attached to.
SpecInsertAny == InitNet /\ [][NextInsertAny]_vars

NextRemoveAny ==
    \/ \E w \in EditWires : \E index \in 0..1 : \E c \in Connectors :
          AttachWireToConnector(w, index, c)
    \/ \E w \in EditWires : \E pt \in EditPoints : AppendPoint(w, pt)
    \/ \E w \in EditWires : \E index \in (-1)..MaxPoints : RemovePoint(w, index)

\* remove_point with any index, on a wire that connectors are attached to.
SpecRemoveAny == InitNet /\ [][NextRemoveAny]_vars

NextAttachNet ==
    \/ \E w \in Wires : AddAbsentWire(w)
    \/ \E w \in Wires : RemoveWire(w)
    \/ \E w \in Wires : \E index \in 0..1 : \E c \in Connectors :
          AttachWireToConnector(w, index, c)
    \/ \E c \in Connectors : DetachWire(c)

\* Connectors are attached to the end points of wires that the manager gets
\* and loses.
SpecAttachNet == InitNet /\ [][NextAttachNet]_vars

\* Every wire of up to MaxPoints points on the grid positions, with any
\* junction flags.
FlaggedPoints == {[x |-> p.x, y |-> p.y, j |-> f] : p \in EditPoints, f \in BOOLEAN}
PointSeqs == UNION {[1..k -> FlaggedPoints] : k \in 0..MaxPoints}

InitSimplify ==
    /\ \E q \in PointSeqs :
          points = [w \in Wires |-> IF w \in EditWires THEN q ELSE DefaultShape]
    /\ connected = [w \in Wires |-> {}]
    /\ wireNet = [w \in Wires |-> NoNet]
    /\ nets = <<>>
    /\ netWires = [n \in NetIds |-> {}]
    /\ netName = [n \in NetIds |-> ""]
    /\ connections = [c \in Connectors |-> <<>>]
    /\ handlers = [w \in Wires |-> 0]
    /\ faulted = FALSE
    /\ preserveStraightAngles = TRUE

NextSimplify ==
    \/ \E w \in EditWires : Simplify(w)

\* simplify applied to any wire.
SpecSimplify == InitSimplify /\ [][NextSimplify]_vars

NextGrow ==
    \/ \E w \in EditWires : \E pt \in EditPoints : PrependPoint(w, pt)
    \/ \E w \in EditWires : \E pt \in EditPoints : AppendPoint(w, pt)

\* prepend and append applied to any wire.
SpecGrow == InitSimplify /\ [][NextGrow]_vars

\* The vectors a point or a segment is moved by.
MoveVectors == {Vec(1, 0), Vec(0, 1), Vec(0, -1), Vec(1, 1)}

\* The moves that are followed: no junction of another wire has to be put on
\* a new segment, and every wire stays within MaxPoints points on the
\* positions 0..MaxCoord.
Followed(s) ==
    /\ ~s.beyond
    /\ \A w \in Wires :
          /\ Len(s.points[w]) <= MaxPoints
          /\ \A i \in 1..Len(s.points[w]) :
                /\ s.points[w][i].x \in 0..MaxCoord
                /\ s.points[w][i].y \in 0..MaxCoord

\* Every segment of the wire is horizontal or vertical.
Orthogonal(q) ==
    \A i \in 1..(Len(q) - 1) :
        Line_isHorizontal(q[i], q[i + 1]) \/ Line_isVertical(q[i], q[i + 1])

\* attach_wire_to_connector with the index of the wire's first or last point.
AttachToEnd(w, index, c) ==
    /\ index \in {0, Len(points[w]) - 1}
    /\ AttachWireToConnector(w, index, c)

MovePointBy(w, index, moveBy) ==
    /\ Orthogonal(points[w])
    /\ \E r \in {movePointBy(State, w, index, moveBy, {})} : Followed(r) /\ Become(r)

MovePointTo(w, index, moveTo) ==
    /\ \E r \in {movePointTo(State, w, index, moveTo, {})} : Followed(r) /\ Become(r)

MoveLineSegmentBy(w, index, moveBy) ==
    /\ Orthogonal(points[w])
    /\ \E r \in {moveLineSegmentBy(State, w, index, moveBy, {})} : Followed(r) /\ Become(r)

\* Wires of one, two and three segments, every segment horizontal or vertical.
MoveShapes ==
    { <<Pt(1, 1), Pt(2, 1)>>,
      <<Pt(1, 0), Pt(1, 2)>>,
      <<Pt(0, 1), Pt(2, 1), Pt(2, 2)>>,
      <<Pt(0, 0), Pt(2, 0), Pt(2, 2), Pt(0, 2)>> }

WithJunctions(q, first, last) ==
    [i \in 1..Len(q) |->
        [q[i] EXCEPT !.j = (i = 1 /\ first) \/ (i = Len(q) /\ last)]]

InitMove ==
    /\ \E q \in MoveShapes : \E first, last \in BOOLEAN :
          points = [w \in Wires |->
                      IF w \in EditWires THEN WithJunctions(q, first, last)
                      ELSE DefaultShape]
    /\ connected = [w \in Wires |-> {}]
    /\ wireNet = [w \in Wires |-> NoNet]
    /\ nets = <<>>
    /\ netWires = [n \in NetIds |-> {}]
    /\ netName = [n \in NetIds |-> ""]
    /\ connections = [c \in Connectors |-> <<>>]
    /\ handlers = [w \in Wires |-> 0]
    /\ faulted = FALSE
    /\ preserveStraightAngles = TRUE

\* The connector that is attached to the dragged wire.
MoveConnectors == {1}

NextMove ==
    \/ \E w \in EditWires : \E index \in 0..(MaxPoints - 1) : \E c \in MoveConnectors :
          AttachToEnd(w, index, c)
    \/ \E c \in MoveConnectors : DetachWire(c)
    \/ \E w \in EditWires : \E index \in 0..(MaxPoints - 1) : \E moveBy \in MoveVectors :
          MovePointBy(w, index, moveBy)
    \/ \E w \in EditWires : \E index \in 0..(MaxPoints - 2) : \E moveBy \in MoveVectors :
          MoveLineSegmentBy(w, index, moveBy)

\* A wire with junction flags on its ends, which no other wire is joined to,
\* is dragged by its points and segments while connectors are attached to its
\* ends; straight angles are preserved, and a wire that lost them is dragged
\* no further.
SpecMove == InitMove /\ [][NextMove]_vars

\* The wires that are joined and dragged.
DragWires == {1, 2}

\* The wire has a point of this index, which is flagged as a junction.
IsJunction(w, index) == index < Len(points[w]) /\ points[w][index + 1].j

\* The vectors a junction is dragged by.
DragVectors == {Vec(1, 0), Vec(0, 1)}

\* move_point_by and move_point_to of a junction.
DragJunctionBy(w, index, moveBy) ==
    /\ IsJunction(w, index)
    /\ MovePointBy(w, index, moveBy)

DragJunctionTo(w, index, moveTo) ==
    /\ IsJunction(w, index)
    /\ MovePointTo(w, index, moveTo)

\* A wire that ends where another starts, or that has the start of the other
\* on its only segment.
InitDrag ==
    /\ \E q \in {<<Pt(0, 0), Pt(1, 0)>>, <<Pt(0, 0), Pt(2, 0)>>} :
          points = [w \in Wires |->
                      IF w = 1 THEN q
                      ELSE IF w = 2 THEN <<Pt(1, 0), Pt(1, 1)>>
                      ELSE DefaultShape]
    /\ connected = [w \in Wires |-> {}]
    /\ wireNet = [w \in Wires |-> NoNet]
    /\ nets = <<>>
    /\ netWires = [n \in NetIds |-> {}]
    /\ netName = [n \in NetIds |-> ""]
    /\ connections = [c \in Connectors |-> <<>>]
    /\ handlers = [w \in Wires |-> 0]
    /\ faulted = FALSE
    /\ preserveStraightAngles \in BOOLEAN

NextDrag ==
    \/ \E w \in DragWires : AddNewWire(w)
    \/ GenerateJunctions
    \/ \E w \in DragWires : \E index \in 0..(MaxPoints - 1) : \E moveBy \in DragVectors :
          DragJunctionBy(w, index, moveBy)
    \/ \E w \in DragWires : \E index \in 0..(MaxPoints - 1) : \E moveTo \in EditPoints :
          DragJunctionTo(w, index, moveTo)

\* Two wires are registered, junctions are generated, and the junctions of
\* the wires are dragged, with and without straight angles preserved.
SpecDrag == InitDrag /\ [][NextDrag]_vars

\* The user drags an end point of a managed wire to a position: the point
\* is moved, and the manager is told of it.
UserMovesPoint(w, index, moveTo) ==
    /\ Managed(w) /\ index \in {0, Len(points[w]) - 1}
    /\ \E r \in {movePointTo(State, w, index, moveTo, {})} :
          /\ Followed(r)
          /\ Become(IF r.faulted THEN r ELSE wirePointMovedByUser(r, w, index))

\* The wire that is dragged: it ends on the middle of wire 2, and it may have
\* the start of wire 2 on its first segment, or end where wire 2 ends.
UserShapes ==
    { <<Pt(0, 1), Pt(1, 1)>>,
      <<Pt(0, 0), Pt(2, 0), Pt(2, 1), Pt(1, 1)>>,
      <<Pt(1, 1), Pt(0, 1), Pt(0, 2), Pt(1, 2)>> }

InitUser ==
    /\ \E q \in UserShapes :
          points = [w \in Wires |->
                      IF w = 1 THEN q
                      ELSE IF w = 2 THEN <<Pt(1, 0), Pt(1, 2)>>
                      ELSE <<Pt(0, 0), Pt(0, 2)>>]
    /\ connected = [w \in Wires |-> {}]
    /\ wireNet = [w \in Wires |-> NoNet]
    /\ nets = <<>>
    /\ netWires = [n \in NetIds |-> {}]
    /\ netName = [n \in NetIds |-> ""]
    /\ connections = [c \in Connectors |-> <<>>]
    /\ handlers = [w \in Wires |-> 0]
    /\ faulted = FALSE
    /\ preserveStraightAngles = TRUE

NextUser ==
    \/ \E w \in SceneWires : AddNewWire(w)
    \/ GenerateJunctions
    \/ \E w \in EditWires : \E index \in 0..(MaxPoints - 1) : \E moveTo \in EditPoints :
          UserMovesPoint(w, index, moveTo)

\* Wires are registered, junctions are generated and the user drags the
\* points of a wire.
SpecUser == InitUser /\ [][NextUser]_vars

\* remove_point of the first or the last point of a managed wire of three or
\* more points.
RemoveEndPoint(w, index) ==
    /\ Managed(w) /\ Len(points[w]) >= 3 /\ index \in {0, Len(points[w]) - 1}
    /\ \E r \in {removePoint_joined(State, w, index)} : Followed(r) /\ Become(r)

NextShorten ==
    \/ \E w \in SceneWires : AddNewWire(w)
    \/ GenerateJunctions
    \/ \E w \in SceneWires : \E index \in 0..(MaxPoints - 1) : RemoveEndPoint(w, index)

\* Wires are registered, junctions are generated and end points of wires are
\* removed.
SpecShorten == InitJunctions /\ [][NextShorten]_vars

\* The connector has been moved to scenePos. With the stored index -1 the
\* position in front of the wire's first point is read: the program stops, or
\* goes on and moves nothing, as move_point_by returns for the index -1.
ConnectorMoved(c, scenePos) ==
    /\ ~faulted
    /\ \/ /\ connections[c] # <<>> => connections[c][2] # -1
          /\ \E r \in {connectorMoved(State, c, scenePos)} : Followed(r) /\ Become(r)
       \/ /\ connections[c] # <<>> /\ connections[c][2] = -1
          /\ (Fault \/ Become(State))

NextConnector ==
    \/ \E w \in EditWires : \E index \in (-1)..MaxPoints : \E c \in MoveConnectors :
          AttachWireToConnector(w, index, c)
    \/ \E c \in MoveConnectors : DetachWire(c)
    \/ \E c \in MoveConnectors : \E scenePos \in EditPoints : ConnectorMoved(c, scenePos)

\* A connector is attached to a wire and moved about; the wire follows it.
SpecConnector == InitMove /\ [][NextConnector]_vars

\* ------------------------------------------------------------ net claims

ManagedWires == wires(State)
Linked(a, b) == b \in connected[a] \/ a \in connected[b]

\* Reference reachability over all managed wires, whatever their nets.
RECURSIVE Grow(_, _)
Grow(S, n) ==
    IF n = 0 THEN S
    ELSE Grow(S \cup {b \in ManagedWires : \E a \in S : Linked(a, b)}, n - 1)
Component(a) == Grow({a}, NumWires)

NetsOf(w) == {i \in 1..Len(nets) : w \in netWires[nets[i]]}

\* C1: after any sequence of connect_wire / disconnect_wire calls on wires
\* registered through add_wire, no net holds two wires that are unreachable
\* from each other and no two nets hold wires reachable from each other: the
\* wires of a net are one connected component of the direct-connection relation.
C1_NetIsComponent ==
    /\ \A n \in Range(nets) : \A a, b \in netWires[n] : b \in Component(a)
    /\ \A a, b \in ManagedWires : b \in Component(a) => NetsOf(a) = NetsOf(b)

\* A net of two linked wires beside the net of a third wire that is linked to
\* neither.
C1_Witness ==
    \E n, m \in Range(nets) :
        /\ n # m
        /\ \E a, b \in netWires[n] : a # b /\ Linked(a, b)
        /\ \E c \in netWires[m] : \A a \in netWires[n] : ~Linked(a, c)

Partition(s) == {s.netWires[n] : n \in Range(s.nets)} \ {{}}
RoundTrip(a, b) == disconnectWire(connectWire(State, a, b), a, b)

C6_NoEmptyNet == \A i \in 1..Len(nets) : netWires[nets[i]] # {}

\* C7: every wire handed to the manager and not removed is in exactly one net
\* of the list.
C7_ExactlyOneNet ==
    \A w \in Wires : (wireNet[w] # NoNet \/ NetsOf(w) # {}) => Cardinality(NetsOf(w)) = 1

\* C8: if A's connection set contains B then wires_connected_to(A) contains B
\* and wires_connected_to(B) contains A.
C8_JunctionSymmetry ==
    \A a, b \in ManagedWires :
        b \in connected[a] =>
            /\ b \in wiresConnectedTo(State, a)
            /\ a \in wiresConnectedTo(State, b)

\* C11: after remove_wire(W) returns, no net holds two wires that are
\* unreachable from each other and no two nets hold wires reachable from each
\* other: every remaining net is one connected component.
C11_RemoveKeepsComponents ==
    [][\A w \in Wires : RemoveWire(w) => C1_NetIsComponent']_vars

C21_ConnectMerges ==
    \A a, b \in ManagedWires :
        LET s == connectWire(State, a, b)
        IN IF b \in connected[a]
           THEN /\ s.connected = connected /\ s.wireNet = wireNet
                /\ s.netWires = netWires /\ s.nets = nets
           ELSE /\ \A w \in netWires[wireNet[b]] :
                      w \in s.netWires[s.wireNet[a]] /\ s.wireNet[w] = s.wireNet[a]
                /\ wireNet[b] # wireNet[a] => wireNet[b] \notin Range(s.nets)

\* other's net has two wires and is not anchor's: connect_wire(anchor, other)
\* leaves one net of three wires; and a second connect_wire is refused.
C21_Witness ==
    \E a, b \in ManagedWires :
        /\ wireNet[a] # wireNet[b] /\ b \notin connected[a]
        /\ Cardinality(netWires[wireNet[b]]) = 2
        /\ LET s == connectWire(State, a, b)
           IN /\ Cardinality(s.netWires[s.wireNet[a]]) = 3
              /\ Len(s.nets) = Len(nets) - 1
              /\ connectWire(s, a, b) = s

\* C22: merge_nets(keep, absorb) returns false and changes nothing when keep
\* and absorb are the same net; otherwise it returns true, absorb ends with no
\* wires, keep's wires are the union of the wires both had, and the wires of
\* no other net change.
C22_MergeNets ==
    \A keep, absorb \in Range(nets) :
        LET s == mergeNets(State, keep, absorb)
        IN IF keep = absorb
           THEN ~mergeNets_ok(State, keep, absorb) /\ s = State
           ELSE /\ mergeNets_ok(State, keep, absorb)
                /\ s.netWires[absorb] = {}
                /\ s.netWires[keep] = netWires[keep] \cup netWires[absorb]
                /\ \A n \in NetIds \ {keep, absorb} : s.netWires[n] = netWires[n]

\* Three nets with wires: merge_nets of two of them leaves the first with the
\* wires of both, the second empty and the third as it was.
C22_Witness ==
    \E keep, absorb, n \in Range(nets) :
        /\ keep # absorb /\ n # keep /\ n # absorb
        /\ netWires[keep] # {} /\ netWires[absorb] # {} /\ netWires[n] # {}
        /\ LET s == mergeNets(State, keep, absorb)
           IN /\ s.netWires[keep] = netWires[keep] \cup netWires[absorb]
              /\ s.netWires[keep] # netWires[keep]
              /\ s.netWires[absorb] = {} /\ s.netWires[n] = netWires[n]

\* C23: after merge_nets(keep, absorb) on two distinct nets, the resulting net
\* has keep's name if that name was not empty, and absorb's name otherwise.
C23_MergeKeepsName ==
    \A keep, absorb \in Range(nets) :
        keep # absorb =>
            mergeNets(State, keep, absorb).netName[keep] =
                IF netName[keep] # "" THEN netName[keep] ELSE netName[absorb]

\* C24: wires_connected_to(w) is exactly the set of wires that are reachable
\* from w over direct-connection links in either direction, w included, as a
\* reference reachability computation over all managed wires finds it.
C24_ConnectedIsReachable ==
    \A w \in ManagedWires : wiresConnectedTo(State, w) = Component(w)

\* C36: after remove_wire(W) no wire that the manager still has holds W in
\* its connection set.
C36_RemoveLeavesNoReference ==
    \A W \in ManagedWires :
        Len(nets) + Cardinality(wiresConnectedTo(State, W)) - 1 <= MaxNets =>
            LET s == removeWire(State, W)
            IN \A x \in wires(s) : W \notin s.connected[x]

\* C39: wire_with_extremity_at(p) returns a wire only if that wire has a point
\* at p, and no wire when no wire of the manager has a point at p.
C39_ExtremityIsAtPoint ==
    \A p \in EditPoints :
        LET r == wireWithExtremityAt(State, p)
        IN /\ r # 0 => \E k \in 1..Len(points[r]) : SamePos(points[r][k], p)
           /\ (\A w \in ManagedWires : \A k \in 1..Len(points[w]) : ~SamePos(points[w][k], p))
                 => r = 0

\* ----------------------------------------------------- attachment claims

Attached(c) == connections[c] # <<>>
AttachedWire(c) == connections[c][1]
AttachedIndex(c) == connections[c][2]

\* C3: every connector that is attached has a stored index i with
\* 0 <= i < number of points of its wire.
C3_ValidIndex ==
    \A c \in Connectors :
        Attached(c) => 0 <= AttachedIndex(c) /\ AttachedIndex(c) < Len(points[AttachedWire(c)])

\* C4: for a connector attached at point i >= 1 of a wire, the insertion of a
\* point at index p <= i (insert, or prepend for p = 0) makes the stored index
\* i + 1, and the point at the stored index has the coordinates it had before.
\* insert(0, ..) is taken where the program goes on.
C4_InsertShiftsIndex ==
    [][\A w \in EditWires : \A p \in 0..MaxPoints : \A pt \in EditPoints : \A c \in Connectors :
          ( /\ Attached(c) /\ AttachedWire(c) = w
            /\ 1 <= AttachedIndex(c) /\ AttachedIndex(c) < Len(points[w])
            /\ p <= AttachedIndex(c)
            /\ Len(points'[w]) = Len(points[w]) + 1
            /\ (InsertPoint(w, p, pt) \/ (p = 0 /\ PrependPoint(w, pt)))
            /\ ~faulted' )
          => /\ connections'[c] = <<w, AttachedIndex(c) + 1>>
             /\ SamePos(points'[w][AttachedIndex(c) + 2], points[w][AttachedIndex(c) + 1])]_vars

\* A connector at the last point of a wire of two or more points, where
\* insert(1, p) moves the stored index from N - 1 to N, the last point of the
\* longer wire; and a connector at an inner point with the insertion at its
\* own index.
C4_Witness ==
    /\ \E c \in Connectors : \E pt \in EditPoints :
          /\ Attached(c) /\ AttachedWire(c) \in EditWires
          /\ Len(points[AttachedWire(c)]) \in 2..(MaxPoints - 1)
          /\ AttachedIndex(c) = Len(points[AttachedWire(c)]) - 1
          /\ LET w == AttachedWire(c)
                 t == insertPoint(State, w, 1, pt)
             IN /\ t.connections[c] = <<w, Len(points[w])>>
                /\ Len(t.points[w]) = Len(points[w]) + 1
    /\ \E c \in Connectors : \E pt \in EditPoints :
          /\ Attached(c) /\ AttachedWire(c) \in EditWires
          /\ AttachedIndex(c) = 1 /\ Len(points[AttachedWire(c)]) = 3
          /\ insertPoint(State, AttachedWire(c), 1, pt).connections[c] = <<AttachedWire(c), 2>>

\* C5 as claimed: for a connector attached at point i of a wire, the removal
\* of the point at index p <= i makes the stored index i - 1, the stored index
\* is that of a point, and this point has the coordinates the pinned point had.
C5_RemoveKeepsPin ==
    [][\A w \in EditWires : \A p \in 0..(MaxPoints - 1) : \A c \in Connectors :
          ( /\ Attached(c) /\ AttachedWire(c) = w
            /\ 0 <= AttachedIndex(c) /\ AttachedIndex(c) < Len(points[w])
            /\ p <= AttachedIndex(c)
            /\ Len(points'[w]) = Len(points[w]) - 1
            /\ RemovePoint(w, p) )
          => /\ connections'[c] = <<w, AttachedIndex(c) - 1>>
             /\ AttachedIndex(c) - 1 >= 0
             /\ SamePos(points'[w][AttachedIndex(c)], points[w][AttachedIndex(c) + 1])]_vars

\* C5 for a point in front of the pinned one: for a connector attached at
\* point i of a wire, the removal of the point at index p < i makes the stored
\* index i - 1, and the point at the stored index then has the coordinates the
\* pinned point had. The removal of the pinned point itself (p = i) makes the
\* stored index i - 1 as well.
C5_RemoveInFrontKeepsPin ==
    [][\A w \in EditWires : \A p \in 0..(MaxPoints - 1) : \A c \in Connectors :
          ( /\ Attached(c) /\ AttachedWire(c) = w
            /\ 0 <= AttachedIndex(c) /\ AttachedIndex(c) < Len(points[w])
            /\ p <= AttachedIndex(c)
            /\ Len(points'[w]) = Len(points[w]) - 1
            /\ RemovePoint(w, p) )
          => /\ connections'[c] = <<w, AttachedIndex(c) - 1>>
             /\ p < AttachedIndex(c) =>
                  SamePos(points'[w][AttachedIndex(c)], points[w][AttachedIndex(c) + 1])]_vars

\* A connector at point 2 of a wire of three different points, where the
\* removal of point 0 leaves it at index 1 on the point it was on.
C5_Witness ==
    \E c \in Connectors :
        /\ Attached(c) /\ AttachedWire(c) \in EditWires
        /\ AttachedIndex(c) = 2 /\ Len(points[AttachedWire(c)]) = 3
        /\ LET w == AttachedWire(c)
               t == removePoint(State, w, 0)
           IN /\ ~SamePos(points[w][3], points[w][2])
              /\ t.connections[c] = <<w, 1>>
              /\ SamePos(t.points[w][2], points[w][3])

\* C12: after remove_wire(W) returns, every attachment is to a wire that is a
\* member of a net of the manager; none is to W.
C12_RemoveDetaches ==
    [][\A w \in Wires : RemoveWire(w) =>
          \A c \in Connectors : Attached(c)' => AttachedWire(c)' \in ManagedWires']_vars

\* C28: when a wire has got a point at position p and the manager is notified,
\* exactly the attachments on that wire with an index >= p that is not 0 are
\* incremented; an attachment at index 0, attachments with an index < p (also
\* when the point was appended behind an attached last point) and attachments
\* on other wires are unchanged.
C28_InsertShiftsOnlyBehind ==
    \A w \in EditWires : \A p \in 0..Len(points[w]) : \A pt \in EditPoints :
        Len(points[w]) < MaxPoints =>
            LET s == point_inserted([State EXCEPT !.points[w] = InsertAt(@, p, pt)], w, p)
            IN \A c \in Connectors :
                  s.connections[c] =
                     IF Attached(c) /\ AttachedWire(c) = w
                        /\ AttachedIndex(c) >= p /\ AttachedIndex(c) # 0
                     THEN <<w, AttachedIndex(c) + 1>>
                     ELSE connections[c]

\* C34: attach_wire_to_connector changes nothing when the connector has an
\* attachment already, and nothing when the index is not the index of a point
\* of the wire; detach_wire(C) takes C's attachment away and leaves the
\* attachment of every other connector as it is, and on a connector without
\* attachment it leaves the table as it is and the program running.
C34_AttachAndDetachAreGuarded ==
    /\ \A w \in EditWires : \A index \in (-2)..(MaxPoints + 1) : \A c \in Connectors :
          LET r == attachWireToConnector(State, w, index, c)
          IN /\ connections[c] # <<>> => r.connections = connections
             /\ ~(0 <= index /\ index < Len(points[w])) => r.connections = connections
    /\ \A c \in Connectors :
          LET r == detachWire(State, c)
          IN /\ r.connections[c] = <<>>
             /\ \A other \in Connectors \ {c} : r.connections[other] = connections[other]
             /\ connections[c] = <<>> => (r.connections = connections /\ ~r.faulted)

\* C35: whatever connectors have been attached to and detached from a wire,
\* the manager has one handler for the wire's removed points while a connector
\* is attached to it and none otherwise, so that a notification of a removed
\* point takes exactly one off every stored index that is not in front of the
\* removed point and leaves the others; detaching a wire from all connectors
\* leaves it with no attachment and no handler.
C35_OneRemovalHandler ==
    \A w \in Wires :
        /\ handlers[w] = IF connectorsAttachedToWire(State, w) = {} THEN 0 ELSE 1
        /\ \A index \in 0..(MaxPoints - 1) :
              LET r == emit_pointRemoved(State, w, index)
              IN \A c \in Connectors :
                    IF c \in connectorsAttachedToWire(State, w)
                    THEN r.connections[c] =
                            <<w, connections[c][2] - (IF connections[c][2] >= index THEN 1 ELSE 0)>>
                    ELSE r.connections[c] = connections[c]
        /\ LET r == detachWireFromAll(State, w)
           IN /\ connectorsAttachedToWire(r, w) = {} /\ r.handlers[w] = 0
              /\ \A c \in Connectors \ connectorsAttachedToWire(State, w) :
                    r.connections[c] = connections[c]

\* Two connectors are attached to a wire that has lost or got points.
C35_Witness ==
    \E w \in EditWires :
        /\ Cardinality(connectorsAttachedToWire(State, w)) >= 2
        /\ handlers[w] = 1
        /\ Len(points[w]) # Len(DefaultShape)

\* The state in which every point of the wire carries its index, so that the
\* points that an operation leaves are known by it.
Numbered(s, w) ==
    [s EXCEPT !.points[w] =
        [k \in 1..Len(@) |-> [x |-> @[k].x, y |-> @[k].y, j |-> @[k].j, id |-> k - 1]]]

\* C38: simplify notifies the manager of every point it removes with the index
\* that point has: an attachment whose pinned point simplify leaves is, after
\* simplify, to a point at the position of the pinned point, also on a wire
\* that is at a position more than once.
C38_SimplifyKeepsPins ==
    \A c \in Connectors :
        (connections[c] # <<>> /\ connections[c][2] >= 0
            /\ connections[c][2] < Len(points[connections[c][1]]))
        => LET w == connections[c][1]
               i == connections[c][2]
               r == simplify(Numbered(State, w), w)
               k == r.connections[c][2]
           IN (\E m \in 1..Len(r.points[w]) : r.points[w][m].id = i)
                 => /\ k >= 0 /\ k < Len(r.points[w])
                    /\ SamePos(r.points[w][k + 1], points[w][i + 1])

\* -------------------------------------------------------- index claims

\* C15: insert(index, point) with an index outside 1..len-1 returns, leaves
\* the wire's points as they are and notifies nobody (no attachment changes).
C15_InsertOutsideIsNoOp ==
    [][\A w \in EditWires : \A index \in (-1)..MaxPoints : \A pt \in EditPoints :
          (InsertPoint(w, index, pt) /\ ~(1 <= index /\ index <= Len(points[w]) - 1))
          => /\ ~faulted'
             /\ points' = points
             /\ connections' = connections]_vars

\* C16: remove_point(index) with an index outside 0..len-1 returns, leaves the
\* wire's points and every attachment index as they are and notifies nobody.
C16_RemoveOutsideIsNoOp ==
    [][\A w \in EditWires : \A index \in (-1)..MaxPoints :
          (RemovePoint(w, index) /\ ~(0 <= index /\ index <= Len(points[w]) - 1))
          => /\ ~faulted'
             /\ points' = points
             /\ connections' = connections]_vars

\* ---------------------------------------------------------- growth claims

\* C29: prepend and append on a wire that had at least 2 points give the new
\* end point the junction flag of the former end point and clear the former
\* end point's flag; on a wire that had fewer than 2 points neither changes
\* the flag of a point the wire had. The number of flagged points of the wire
\* is unchanged in both cases.
C29_EndInheritsFlag ==
    \A w \in EditWires : \A pt \in EditPoints :
        Len(points[w]) < MaxPoints =>
            LET n == Len(points[w])
                a == prependPoint(State, w, pt).points[w]
                b == appendPoint(State, w, pt).points[w]
                Flags(q) == Cardinality({i \in 1..Len(q) : q[i].j})
            IN /\ n >= 2 => /\ a[1].j = points[w][1].j /\ ~a[2].j
                            /\ b[n + 1].j = points[w][n].j /\ ~b[n].j
               /\ n < 2 => \A i \in 1..n : a[i + 1].j = points[w][i].j /\ b[i].j = points[w][i].j
               /\ Flags(a) = Flags(points[w]) /\ Flags(b) = Flags(points[w])

\* ---------------------------------------------------------- removal claims

\* C30: remove_point of the first or the last point of a wire of three or more
\* points moves the junctions of connected wires that are on the removed
\* point to the wire's new end (its second point when the first is removed,
\* its second last when the last is removed), and leaves every other junction
\* of a connected wire where it is, those on the segment at the other end
\* included.
C30_RemoveEndMovesItsJunctions ==
    \A w \in ManagedWires : \A index \in {0, Len(points[w]) - 1} :
        Len(points[w]) >= 3 =>
            LET r == removePoint_joined(State, w, index)
                n == Len(points[w])
                removed == points[w][index + 1]
                newEnd == IF index = 0 THEN points[w][2] ELSE points[w][n - 1]
            IN (Followed(r) /\ ~r.faulted) =>
                  \A other \in connected[w] : \A jIndex \in junctions(State, other) :
                      LET was == points[other][jIndex + 1]
                          now == r.points[other][jIndex + 1]
                      IN Len(r.points[other]) = Len(points[other]) =>
                            IF SamePos(was, removed) THEN SamePos(now, newEnd)
                            ELSE SamePos(now, was)

\* --------------------------------------------------------- connector claims

\* C31: after connector_moved(C) for a connector C that is attached to a wire,
\* the point of the wire at C's stored index, as the move has left that index,
\* is at C's position; when C has no attachment, or is where its pinned point
\* is, no point of a wire changes.
C31_WireFollowsConnector ==
    \A c \in MoveConnectors : \A scenePos \in EditPoints :
        IF connections[c] = <<>>
        THEN connectorMoved(State, c, scenePos).points = points
        ELSE LET w == connections[c][1]
                 i == connections[c][2]
                 r == connectorMoved(State, c, scenePos)
                 k == r.connections[c][2]
             IN /\ i # -1
                /\ (Followed(r) /\ ~r.faulted) =>
                      /\ r.connections[c] # <<>> /\ r.connections[c][1] = w
                      /\ k >= 0 /\ k < Len(r.points[w])
                      /\ SamePos(r.points[w][k + 1], scenePos)
                      /\ (i < Len(points[w]) /\ SamePos(points[w][i + 1], scenePos))
                            => r.points = points

\* ------------------------------------------------------- simplify claims

\* C13: simplify applied twice gives the points and junction flags that
\* simplify applied once gives.
C13_SimplifyIdempotent ==
    \A w \in EditWires :
        simplify(simplify(State, w), w).points[w] = simplify(State, w).points[w]

\* C14: simplify leaves a wire of two or more points with two or more points,
\* and a wire of two or fewer points as it is.
C14_SimplifyKeepsTwo ==
    [][\A w \in EditWires : Simplify(w) =>
          /\ Len(points[w]) >= 2 => Len(points'[w]) >= 2
          /\ Len(points[w]) <= 2 => points'[w] = points[w]]_vars

\* A wire of the longest kind, its first two points equal, that simplify takes
\* down to two points.
C14_Witness ==
    \E w \in EditWires :
        /\ Len(points[w]) = MaxPoints
        /\ SamePos(points[w][1], points[w][2])
        /\ Len(simplify(State, w).points[w]) = 2

\* C32: after simplify no two consecutive points of the wire are at the same
\* position, whatever the three or more points the wire had.
C32_SimplifyLeavesNoDuplicate ==
    \A w \in EditWires :
        Len(points[w]) >= 3 =>
            LET q == simplify(State, w).points[w]
            IN \A k \in 1..(Len(q) - 1) : ~SamePos(q[k], q[k + 1])

\* C33: a point of the wire that has a neighbour on either side, is flagged as
\* a junction and is at the position of neither neighbour is not removed by
\* simplify: the wire still has a flagged point at its position.
C33_SimplifyKeepsJunctions ==
    \A w \in EditWires : \A i \in 2..(Len(points[w]) - 1) :
        (/\ points[w][i].j
         /\ ~SamePos(points[w][i], points[w][i - 1])
         /\ ~SamePos(points[w][i], points[w][i + 1]))
        => LET q == simplify(State, w).points[w]
           IN \E k \in 1..Len(q) : SamePos(q[k], points[w][i]) /\ q[k].j

\* ----------------------------------------------------------- move claims

\* C17: with straight angles preserved, if every segment of a wire is
\* horizontal or vertical before move_point_by(index, delta), every segment of
\* the wire is horizontal or vertical after it, for every index of a point
\* and every delta.
C17_MoveKeepsStraightAngles ==
    \A w \in EditWires : \A index \in 0..(Len(points[w]) - 1) : \A moveBy \in MoveVectors :
        (preserveStraightAngles /\ Orthogonal(points[w])) =>
            Orthogonal(movePointBy(State, w, index, moveBy, {}).points[w])

\* The point k of the wire is attached to a connector or flagged as a junction.
Anchored(w, k) ==
    \/ \E c \in Connectors : connections[c] = <<w, k>>
    \/ points[w][k + 1].j

\* In state r the wire has a point where its point k is now, and what was
\* attached to the point k or flagged on it is on that point.
StaysPut(r, w, k) ==
    \E m \in 0..(Len(r.points[w]) - 1) :
        /\ SamePos(r.points[w][m + 1], points[w][k + 1])
        /\ \A c \in Connectors : connections[c] = <<w, k>> => r.connections[c] = <<w, m>>
        /\ points[w][k + 1].j => r.points[w][m + 1].j

\* C18: move_line_segment_by on the first or last segment of a wire whose
\* outer end point of that segment is attached to a connector or flagged as a
\* junction leaves a point at that end point's position, and the attachment
\* and the flag are on that point afterwards; for both ends, and for a wire of
\* a single segment.
C18_AnchorStaysPut ==
    \A w \in EditWires : \A moveBy \in MoveVectors :
        LET n == Len(points[w])
        IN /\ (n >= 2 /\ Anchored(w, 0)) =>
                  StaysPut(moveLineSegmentBy(State, w, 0, moveBy, {}), w, 0)
           /\ (n >= 2 /\ Anchored(w, n - 1)) =>
                  StaysPut(moveLineSegmentBy(State, w, n - 2, moveBy, {}), w, n - 1)

\* C19: every call to move_point_to and move_point_by runs to completion: the
\* recursion through the junctions of connected wires ends, for every set of
\* connections and junction flags that generate_junctions produces, two wires
\* with a common end point, each connected to the other, included.
C19_MovesRunToCompletion ==
    \A w \in DragWires : \A index \in 0..(Len(points[w]) - 1) :
        /\ \A moveTo \in EditPoints : ~movePointTo(State, w, index, moveTo, {}).faulted
        /\ \A moveBy \in MoveVectors : ~movePointBy(State, w, index, moveBy, {}).faulted

\* ------------------------------------------------------- junction claims

\* The state after the user has moved point index of wire R to moveTo, before
\* the manager is told, and after it was told.
UserMoved(R, index, moveTo) == movePointTo(State, R, index, moveTo, {})
UserTold(R, index, moveTo) == wirePointMovedByUser(UserMoved(R, index, moveTo), R, index)

\* The moved point is an end point of R that was flagged as a junction joining
\* R to X, no other junction of R lies on X, and the point is no longer on X.
DetachCase(R, X, index, r) ==
    /\ X # R /\ ~r.faulted /\ Followed(r)
    /\ index \in {0, Len(points[R]) - 1}
    /\ points[R][index + 1].j
    /\ pointIsOnWire(State, X, points[R][index + 1])
    /\ Linked(R, X)
    /\ ~\E jIndex \in junctions(r, R) \ {index} :
           pointIsOnWire(r, X, r.points[R][jIndex + 1])
    /\ ~pointIsOnWire(r, X, r.points[R][index + 1])

\* C26: when the user has moved an end point of wire R that was flagged as a
\* junction joining R to wire X, no other junction of R lies on X and the
\* moved point no longer lies on X, then after wire_point_moved_by_user R and
\* X are not connected in either direction, R and X are in different nets
\* unless they are joined through other wires, and the moved point's junction
\* flag is cleared.
C26_UserMoveDetaches ==
    \A R \in EditWires \cap ManagedWires : \A X \in ManagedWires :
        \A index \in 0..(Len(points[R]) - 1) : \A moveTo \in EditPoints :
            DetachCase(R, X, index, UserMoved(R, index, moveTo)) =>
                LET s == UserTold(R, index, moveTo)
                IN /\ R \notin s.connected[X] /\ X \notin s.connected[R]
                   /\ X \notin ConnectedClosure(s, Wires, {R}) => s.wireNet[R] # s.wireNet[X]
                   /\ ~s.points[R][index + 1].j

\* C26, as the code has it: if moreover R itself does not store a link to X,
\* then afterwards neither stores a link to the other and R and X are in
\* different nets unless they are joined through other wires; the moved
\* point's flag is cleared unless the point now lies on another wire that R
\* does not store a link to, which it is then attached to.
C26_UserMoveDetachesStoredLink ==
    \A R \in EditWires \cap ManagedWires : \A X \in ManagedWires :
        \A index \in 0..(Len(points[R]) - 1) : \A moveTo \in EditPoints :
            (/\ DetachCase(R, X, index, UserMoved(R, index, moveTo))
             /\ X \notin connected[R]) =>
                LET s == UserTold(R, index, moveTo)
                IN /\ R \notin s.connected[X] /\ X \notin s.connected[R]
                   /\ X \notin ConnectedClosure(s, Wires, {R}) => s.wireNet[R] # s.wireNet[X]
                   /\ s.points[R][index + 1].j <=>
                         \E Y \in ManagedWires \ {R} :
                            /\ pointIsOnWire(s, Y, s.points[R][index + 1])
                            /\ Y \notin connected[R]

\* C27: after wire_point_moved_by_user for an end point of wire R, the end
\* point's junction flag is set and R is in the same net as X for every other
\* wire X on whose geometry the end point now lies; if the end point lies on no
\* other wire its junction flag is not set; and for an interior index no
\* connection and no flag is changed.
C27_UserMoveAttaches ==
    \A R \in EditWires \cap ManagedWires :
        \A index \in 0..(Len(points[R]) - 1) : \A moveTo \in EditPoints :
            LET r == UserMoved(R, index, moveTo)
                s == UserTold(R, index, moveTo)
                On(X) == pointIsOnWire(s, X, s.points[R][index + 1])
            IN (~r.faulted /\ Followed(r)) =>
                  IF index \in {0, Len(points[R]) - 1}
                  THEN /\ \A X \in ManagedWires \ {R} :
                             On(X) => s.points[R][index + 1].j /\ s.wireNet[R] = s.wireNet[X]
                       /\ (\A X \in ManagedWires \ {R} : ~On(X)) => ~s.points[R][index + 1].j
                  ELSE s.connected = r.connected /\ s.points = r.points

\* The end of R lies on the middle of X and is its only junction on X, X
\* stores the link, and the user drags the end off every wire: the link is
\* gone, the flag is cleared and R is in a net without X.
C26_Witness ==
    \E R \in EditWires \cap ManagedWires : \E X \in ManagedWires :
        \E index \in 0..(Len(points[R]) - 1) : \E moveTo \in EditPoints :
            /\ DetachCase(R, X, index, UserMoved(R, index, moveTo))
            /\ X \notin connected[R] /\ R \in connected[X]
            /\ wireNet[R] = wireNet[X]
            /\ LET s == UserTold(R, index, moveTo)
               IN /\ R \notin s.connected[X]
                  /\ s.wireNet[R] # s.wireNet[X]
                  /\ ~s.points[R][index + 1].j

\* C25: after remove_wire(W), W is a member of no net, W's former net is
\* removed from the manager if W was its last wire, and on every wire that was
\* directly connected to W each point that lies on W has its junction flag
\* cleared while the flags of the points that do not lie on W are unchanged.
C25_RemoveClearsJunctions ==
    \A W \in ManagedWires :
        LET s == removeWire(State, W)
        IN /\ \A n \in Range(s.nets) : W \notin s.netWires[n]
           /\ \A n \in Range(nets) : netWires[n] = {W} => n \notin Range(s.nets)
           /\ \A x \in ManagedWires \ {W} :
                 Linked(x, W) =>
                    /\ Len(s.points[x]) = Len(points[x])
                    /\ \A i \in 1..Len(points[x]) :
                          s.points[x][i].j =
                             (points[x][i].j /\ ~pointIsOnWire(State, W, points[x][i]))


FirstPoint(w) == points[w][1]
LastPoint(w) == points[w][Len(points[w])]
OnWire(a, q) == pointIsOnWire(State, a, q)

C9_Post ==
    \A a, b \in ManagedWires :
        a # b =>
          /\ OnWire(a, FirstPoint(b)) =>
                Linked(a, b) /\ wireNet[a] = wireNet[b] /\ FirstPoint(b).j
          /\ OnWire(a, LastPoint(b)) =>
                Linked(a, b) /\ wireNet[a] = wireNet[b] /\ LastPoint(b).j

\* C37: generate_junctions run again on the state it has produced changes no
\* connection set, no junction flag, no membership of a net and no entry of
\* the list of nets.
C37_GenerateJunctionsIdempotent ==
    LET once == Normalize(generateJunctions(State))
        twice == generateJunctions(once)
    IN /\ twice.connected = once.connected
       /\ twice.points = once.points
       /\ twice.wireNet = once.wireNet
       /\ twice.netWires = once.netWires
       /\ twice.nets = once.nets

\* generate_junctions has joined two wires at least: the manager has three
\* wires, two of them flagged where they lie on another one.
C37_Witness ==
    /\ Cardinality(ManagedWires) = 3
    /\ generateJunctions(State).points = points
    /\ Cardinality({b \in ManagedWires :
          \E a \in ManagedWires \ {b} :
              /\ b \in connected[a] /\ wireNet[a] = wireNet[b]
              /\ \E i \in junctions(State, b) : OnWire(a, points[b][i + 1])}) >= 2

SingleJunction(a, b) ==
    /\ a \in ManagedWires /\ b \in ManagedWires /\ a # b
    /\ netWires[wireNet[a]] = {a, b}
    /\ connected[a] = {b} /\ connected[b] = {}
    /\ Cardinality(junctions(State, b)) = 1
    /\ \A i \in junctions(State, b) : OnWire(a, points[b][i + 1])

====
